---- MODULE Spec2Model ----
(***************************************************************************)
(* A model of the lowering pass of interp/ast.go (Ast, addChild,           *)
(* nodestack, Kind.String, Action.String) and of the package loader that   *)
(* example/pkg/pkg_test.go exercises.                                      *)
(***************************************************************************)
EXTENDS Integers, Sequences, FiniteSets, TLC

(***************************************************************************)
(* Bounds of the model.                                                    *)
(***************************************************************************)
\* number of non-nil visits the surface walker makes in one call of Ast
MaxVisits == 3
\* length of the generated literal lexemes
MaxLen == 4
\* Kind.String / Action.String are applied to every value in -StrSpan .. len+StrSpan
StrSpan == 5
\* depth of the importing package directory below the workspace root
MaxDepth == 3

(***************************************************************************)
(* Kind (ast.go:11-51) and Action (ast.go:103-123): iota enumerations.     *)
(***************************************************************************)
Undef == 0
ArrayType == 1
AssignStmt == 2
BasicLit == 3
BinaryExpr == 4
BlockStmt == 5
BranchStmt == 6
Break == 7
CallExpr == 8
CompositeLit == 9
Continue == 10
ExprStmt == 11
Fallthrough == 12
Field == 13
FieldList == 14
File == 15
For0 == 16
For1 == 17
For2 == 18
For3 == 19
For4 == 20
ForRangeStmt == 21
ForStmt == 22
FuncDecl == 23
FuncType == 24
Goto == 25
Ident == 26
If0 == 27
If1 == 28
If2 == 29
If3 == 30
IfStmt == 31
IncDecStmt == 32
IndexExpr == 33
ParenExpr == 34
RangeStmt == 35
ReturnStmt == 36

Nop == 0
ArrayLit == 1
Assign == 2
AssignX == 3
Add == 4
And == 5
Call == 6
Dec == 7
Equal == 8
Greater == 9
GetIndex == 10
Inc == 11
Lower == 12
Println == 13
Range == 14
Return == 15
Sub == 16

\* the nil *Node
NIL == 0

VARIABLES
    outcome,   \* position of the call of Ast: "idle", "inspect", "returned", "panic"
    perr,      \* the error value the call panicked with ("" when none)
    nodes,     \* the heap of *Node created by addChild, in creation order
    index,     \* Ast's local index counter
    root,      \* Ast's local root (NIL or a position in nodes)
    st,        \* Ast's local nodestack
    def,       \* Ast's local Def: set of <<name, node>> bindings
    trace,     \* lines written by fmt.Printf
    walk,      \* ast.Inspect's recursion: the surface nodes entered and not yet left
    visits,    \* number of non-nil visits made so far
    file,      \* what the file handed to Ast may contain: the inputs of the cases
    strIn,     \* receiver of a pending Kind.String / Action.String call
    strOut,    \* its result
    loader     \* state of the package loader

vars == <<outcome, perr, nodes, index, root, st, def, trace, walk, visits, file,
          strIn, strOut, loader>>

astVars == <<outcome, perr, nodes, index, root, st, def, trace, walk, visits, file>>

(***************************************************************************)
(* strconv.ParseInt(a.Value, 0, 0), the conversion the BasicLit case       *)
(* applies (ast.go:197).  A lexeme is a sequence of one-character strings. *)
(* Magnitudes are little-endian sequences of limbs in base LimbBase, so    *)
(* that the 64-bit range test is exact.                                    *)
(***************************************************************************)
DecDigits == <<"0", "1", "2", "3", "4", "5", "6", "7", "8", "9">>
LowerLetters == <<"a", "b", "c", "d", "e", "f", "g", "h", "i", "j", "k", "l", "m",
                  "n", "o", "p", "q", "r", "s", "t", "u", "v", "w", "x", "y", "z">>
UpperLetters == <<"A", "B", "C", "D", "E", "F", "G", "H", "I", "J", "K", "L", "M",
                  "N", "O", "P", "Q", "R", "S", "T", "U", "V", "W", "X", "Y", "Z">>

IndexOf(seq, c) == IF \E i \in 1..Len(seq) : seq[i] = c
                   THEN CHOOSE i \in 1..Len(seq) : seq[i] = c
                   ELSE 0

\* strconv's lower(c), on letters
lower(c) == IF IndexOf(UpperLetters, c) > 0 THEN LowerLetters[IndexOf(UpperLetters, c)] ELSE c

IsDecDigit(c) == IndexOf(DecDigits, c) > 0

\* the digit value ParseUint gives each digit and letter
DigitTable ==
    [c \in {DecDigits[i] : i \in 1..10} \cup {LowerLetters[i] : i \in 1..26}
                                        \cup {UpperLetters[i] : i \in 1..26} |->
        IF IsDecDigit(c) THEN IndexOf(DecDigits, c) - 1
        ELSE IndexOf(LowerLetters, lower(c)) + 9]

\* the digit value of a character, -1 when it has none
DigitVal(c) == IF c \in DOMAIN DigitTable THEN DigitTable[c] ELSE -1

LimbBase == 10 ^ 4

RECURSIVE MulAddLimbs(_, _, _)
\* m * b + c
MulAddLimbs(m, b, c) ==
    IF m = <<>> THEN (IF c = 0 THEN <<>> ELSE <<c>>)
    ELSE LET t == Head(m) * b + c
         IN  <<t % LimbBase>> \o MulAddLimbs(Tail(m), b, t \div LimbBase)

LimbsLess(a, b) ==
    \/ Len(a) < Len(b)
    \/ /\ Len(a) = Len(b)
       /\ \E i \in 1..Len(a) : /\ a[i] < b[i]
                               /\ \A j \in (i+1)..Len(a) : a[j] = b[j]

\* ParseInt's cutoff 1 << (bitSize-1) for bitSize 0, the 64-bit int: 2^63
IntCutoff == <<5808, 5477, 368, 3372, 922>>
\* ParseUint's maxUint64 + 1: 2^64
UintLimit == <<1616, 955, 737, 6744, 1844>>

RECURSIVE underscoreLoop(_, _, _)
underscoreLoop(s, i, hex) ==
    IF s = <<>> THEN i # "_"
    ELSE LET c == Head(s)
         IN  IF IsDecDigit(c) \/ (hex /\ DigitVal(c) \in 10..15)
             THEN underscoreLoop(Tail(s), "0", hex)
             ELSE IF c = "_"
             THEN (IF i # "0" THEN FALSE ELSE underscoreLoop(Tail(s), "_", hex))
             ELSE IF i = "_" THEN FALSE
             ELSE underscoreLoop(Tail(s), "!", hex)

\* strconv.underscoreOK
underscoreOK(s0) ==
    LET s1 == IF Len(s0) >= 1 /\ s0[1] \in {"-", "+"} THEN Tail(s0) ELSE s0
        pre == Len(s1) >= 2 /\ s1[1] = "0" /\ lower(s1[2]) \in {"b", "o", "x"}
    IN  IF pre THEN underscoreLoop(Tail(Tail(s1)), "0", lower(s1[2]) = "x")
        ELSE underscoreLoop(s1, "^", FALSE)

RECURSIVE uintLoop(_, _, _, _, _)
\* ParseUint's loop over the digits: s the rest, n the value so far
uintLoop(s0, s, base, n, underscores) ==
    IF s = <<>>
    THEN IF underscores /\ ~underscoreOK(s0)
         THEN [err |-> "syntax", mag |-> <<>>]
         ELSE [err |-> "", mag |-> n]
    ELSE LET c == Head(s)
             d == DigitVal(c)
             n1 == MulAddLimbs(n, base, d)
         IN  IF c = "_" THEN uintLoop(s0, Tail(s), base, n, TRUE)
             ELSE IF d < 0 \/ d >= base THEN [err |-> "syntax", mag |-> <<>>]
             ELSE IF ~LimbsLess(n1, UintLimit) THEN [err |-> "range", mag |-> <<>>]
             ELSE uintLoop(s0, Tail(s), base, n1, underscores)

\* strconv.ParseUint(s, 0, 0)
ParseUint(s) ==
    IF s = <<>> THEN [err |-> "syntax", mag |-> <<>>]
    ELSE IF s[1] = "0"
    THEN IF Len(s) >= 3 /\ lower(s[2]) = "b" THEN uintLoop(s, Tail(Tail(s)), 2, <<>>, FALSE)
         ELSE IF Len(s) >= 3 /\ lower(s[2]) = "o" THEN uintLoop(s, Tail(Tail(s)), 8, <<>>, FALSE)
         ELSE IF Len(s) >= 3 /\ lower(s[2]) = "x" THEN uintLoop(s, Tail(Tail(s)), 16, <<>>, FALSE)
         ELSE uintLoop(s, Tail(s), 8, <<>>, FALSE)
    ELSE uintLoop(s, s, 10, <<>>, FALSE)

\* strconv.ParseInt(s, 0, 0): err is "" on success
ParseInt(s) ==
    IF s = <<>> THEN [err |-> "syntax", neg |-> FALSE, mag |-> <<>>]
    ELSE LET neg == s[1] = "-"
             s1 == IF s[1] \in {"+", "-"} THEN Tail(s) ELSE s
             un == ParseUint(s1)
         IN  IF un.err # "" THEN [err |-> un.err, neg |-> FALSE, mag |-> <<>>]
             ELSE IF ~neg /\ ~LimbsLess(un.mag, IntCutoff)
             THEN [err |-> "range", neg |-> FALSE, mag |-> <<>>]
             ELSE IF neg /\ LimbsLess(IntCutoff, un.mag)
             THEN [err |-> "range", neg |-> FALSE, mag |-> <<>>]
             ELSE [err |-> "", neg |-> neg /\ un.mag # <<>>, mag |-> un.mag]

(***************************************************************************)
(* Values of Node.val: the pointer to an empty interface addChild stores,  *)
(* an int, or a string.                                                    *)
(***************************************************************************)
PtrVal == [t |-> "ptr", neg |-> FALSE, mag |-> <<>>, s |-> <<>>]
IntVal(neg, mag) == [t |-> "int", neg |-> neg, mag |-> mag, s |-> <<>>]
StrVal(s) == [t |-> "string", neg |-> FALSE, mag |-> <<>>, s |-> s]

\* the literal kept as written, never converted
BasicLitVal_noParse(lexeme) == StrVal(lexeme)

\* the value the BasicLit case stores in n.val
BasicLitVal(lexeme) ==
    LET r == ParseInt(lexeme)
    IN  IF r.err = "" THEN IntVal(r.neg, r.mag) ELSE StrVal(lexeme)

(***************************************************************************)
(* Surface nodes (go/ast), with the fields the lowering reads.             *)
(***************************************************************************)
SNode(type) == [type |-> type, Tok |-> "", Lhs |-> 0, Rhs |-> 0,
                Init |-> FALSE, Cond |-> FALSE, Post |-> FALSE, Else |-> FALSE,
                Name |-> <<>>, Value |-> <<>>]

\* the synthetic ForRangeStmt node is created with a nil anode
NoNode == SNode("nil")

\* function and identifier names of the parsed files
Names == {<<"f">>, <<"g">>}
\* operator tokens of binary expressions: the six handled ones and another
BinaryToks == {"ADD", "AND", "EQL", "GTR", "LSS", "SUB", "MUL"}
BranchToks == {"BREAK", "CONTINUE", "GOTO", "FALLTHROUGH"}
IncDecToks == {"INC", "DEC"}
\* surface node types without a case of their own
OtherTypes == {"GenDecl", "UnaryExpr"}

\* A parsed file that mixes every node type, in a few shapes of each statement
TreeFile ==
    [simple |-> TRUE, names |-> Names, lits |-> {<<"1">>, <<"1", ".">>},
     lens |-> {<<1, 1>>, <<2, 1>>}, binToks |-> {"ADD", "MUL"},
     branchToks |-> {"BREAK", "GOTO"},
     forShapes |-> {<<TRUE, TRUE, TRUE>>, <<TRUE, FALSE, TRUE>>},
     ifShapes |-> {<<FALSE, FALSE>>}, incDecToks |-> {"INC"}, others |-> {"GenDecl"}]

\* A parsed file of statements and operators in every shape
ShapesFile ==
    [simple |-> FALSE, names |-> {}, lits |-> {},
     lens |-> {1, 2} \X {1, 2}, binToks |-> BinaryToks, branchToks |-> BranchToks,
     forShapes |-> BOOLEAN \X BOOLEAN \X BOOLEAN, ifShapes |-> BOOLEAN \X BOOLEAN,
     incDecToks |-> IncDecToks, others |-> OtherTypes]

\* A parsed file whose literals all have the lexeme v
LitFile(v) ==
    [simple |-> FALSE, names |-> {}, lits |-> {v},
     lens |-> {}, binToks |-> {}, branchToks |-> {},
     forShapes |-> {}, ifShapes |-> {}, incDecToks |-> {}, others |-> {}]
\* sources handed to the parser
Sources == {"", "func", "package p"}

(***************************************************************************)
(* nodestack (ast.go:344-363)                                              *)
(***************************************************************************)
push(s, v) == Append(s, v)

\* the stack after pop; the popped value is top(s)
pop(s) == SubSeq(s, 1, Len(s) - 1)

top(s) == IF Len(s) > 0 THEN s[Len(s)] ELSE NIL

(***************************************************************************)
(* addChild (ast.go:330-342), on the locals it reads and writes through    *)
(* pointers: S = [nodes, index, root].  The result adds n, the new node.   *)
(***************************************************************************)
NewNode(anc, idx, id, kind, action, anode) ==
    [anc |-> anc, index |-> idx, kind |-> kind, action |-> action,
     Child |-> <<>>, ident |-> <<>>, val |-> PtrVal, Start |-> id, anode |-> anode]

addChild_noIncrement(S, anc, kind, action, anode) ==
    LET id == Len(S.nodes) + 1
        n == NewNode(anc, S.index, id, kind, action, anode)
    IN  [nodes |-> (IF anc = NIL THEN S.nodes
                    ELSE [S.nodes EXCEPT ![anc].Child = Append(@, id)]) \o <<n>>,
         index |-> S.index,
         root |-> IF anc = NIL THEN id ELSE S.root,
         n |-> id]

addChild_rootAlways(S, anc, kind, action, anode) ==
    LET idx == S.index + 1
        id == Len(S.nodes) + 1
        n == NewNode(anc, idx, id, kind, action, anode)
    IN  [nodes |-> (IF anc = NIL THEN S.nodes
                    ELSE [S.nodes EXCEPT ![anc].Child = Append(@, id)]) \o <<n>>,
         index |-> idx,
         root |-> id,
         n |-> id]

addChild(S, anc, kind, action, anode) ==
    LET idx == S.index + 1
        id == Len(S.nodes) + 1
        n == NewNode(anc, idx, id, kind, action, anode)
    IN  [nodes |-> (IF anc = NIL THEN S.nodes
                    ELSE [S.nodes EXCEPT ![anc].Child = Append(@, id)]) \o <<n>>,
         index |-> idx,
         root |-> IF anc = NIL THEN id ELSE S.root,
         n |-> id]

Locals == [nodes |-> nodes, index |-> index, root |-> root]

(***************************************************************************)
(* Ast (ast.go:160-328)                                                    *)
(***************************************************************************)
\* parser.ParseFile: the sources that are no Go file are rejected
ParseFails(src) == src \in {"", "func"}

\* ast.go:163-166: the parser's error is thrown, Ast returns nothing
AstParseError ==
    /\ outcome = "idle"
    /\ \E src \in Sources :
          /\ ParseFails(src)
          /\ perr' = IF src = "" THEN "expected 'package', found 'EOF'"
                     ELSE "expected 'package', found 'func'"
    /\ outcome' = "panic"
    /\ UNCHANGED <<nodes, index, root, st, def, trace, walk, visits, file, strIn, strOut, loader>>

\* ast.go:161-172: the file parsed, the locals are set up and ast.Inspect starts
AstParsed ==
    /\ outcome = "idle"
    /\ \E src \in Sources : ~ParseFails(src)
    /\ outcome' = "inspect"
    /\ nodes' = <<>>
    /\ index' = 0
    /\ root' = NIL
    /\ st' = <<>>
    /\ def' = {}
    /\ UNCHANGED <<perr, trace, walk, visits, file, strIn, strOut, loader>>

\* ast.Inspect enters surface node a and calls the function with it:
\* the File first, every other node inside it
Enter(a) ==
    /\ outcome = "inspect"
    /\ visits < MaxVisits
    /\ IF a.type = "File" THEN visits = 0 ELSE walk # <<>>
    /\ walk' = Append(walk, a)
    /\ visits' = visits + 1
    /\ UNCHANGED <<outcome, perr, file, strIn, strOut, loader>>

\* st.push(addChild(&root, anc, &index, kind, action, &node)) with anc = st.top()
PushChild(a, kind, action) ==
    LET r == addChild(Locals, top(st), kind, action, a)
    IN  /\ nodes' = r.nodes
        /\ index' = r.index
        /\ root' = r.root
        /\ st' = push(st, r.n)

\* the cases that only push a child of a fixed kind and action
Simple(a, kind, action) ==
    /\ file.simple
    /\ Enter(a)
    /\ PushChild(a, kind, action)
    /\ UNCHANGED <<def, trace>>

\* ast.go:178-179
VisitNil ==
    /\ outcome = "inspect"
    /\ walk # <<>>
    /\ walk' = pop(walk)
    /\ IF st = <<>>
       THEN /\ outcome' = "panic"
            /\ perr' = "index out of range"
            /\ st' = st
       ELSE /\ st' = pop(st)
            /\ UNCHANGED <<outcome, perr>>
    /\ UNCHANGED <<nodes, index, root, def, trace, visits, file, strIn, strOut, loader>>

\* ast.go:181-182
VisitArrayType == Simple(SNode("ArrayType"), ArrayType, Nop)

AssignAction(a) == IF a.Lhs > 1 /\ a.Rhs = 1 THEN AssignX ELSE Assign

\* ast.go:184-191
VisitAssignStmt ==
    \E l \in file.lens :
        LET a == [SNode("AssignStmt") EXCEPT !.Lhs = l[1], !.Rhs = l[2]]
        IN  /\ Enter(a)
            /\ PushChild(a, AssignStmt, AssignAction(a))
            /\ UNCHANGED <<def, trace>>

\* ast.go:193-202
VisitBasicLit ==
    \E v \in file.lits :
        LET a == [SNode("BasicLit") EXCEPT !.Value = v]
            r == addChild(Locals, top(st), BasicLit, Nop, a)
        IN  /\ Enter(a)
            /\ nodes' = [r.nodes EXCEPT ![r.n].ident = a.Value,
                                        ![r.n].val = BasicLitVal(a.Value)]
            /\ index' = r.index
            /\ root' = r.root
            /\ st' = push(st, r.n)
            /\ UNCHANGED <<def, trace>>

BinaryAction(a) ==
    CASE a.Tok = "ADD" -> Add
      [] a.Tok = "AND" -> And
      [] a.Tok = "EQL" -> Equal
      [] a.Tok = "GTR" -> Greater
      [] a.Tok = "LSS" -> Lower
      [] a.Tok = "SUB" -> Sub
      [] OTHER -> Nop

\* ast.go:204-220
VisitBinaryExpr ==
    \E t \in file.binToks :
        LET a == [SNode("BinaryExpr") EXCEPT !.Tok = t]
        IN  /\ Enter(a)
            /\ PushChild(a, BinaryExpr, BinaryAction(a))
            /\ UNCHANGED <<def, trace>>

\* ast.go:222-223
VisitBlockStmt == Simple(SNode("BlockStmt"), BlockStmt, Nop)

\* ast.go:226-232: kind keeps the zero Kind, Undef, for the other tokens
BranchKind(a) ==
    CASE a.Tok = "BREAK" -> Break
      [] a.Tok = "CONTINUE" -> Continue
      [] OTHER -> Undef

\* ast.go:225-233
VisitBranchStmt ==
    \E t \in file.branchToks :
        LET a == [SNode("BranchStmt") EXCEPT !.Tok = t]
        IN  /\ Enter(a)
            /\ PushChild(a, BranchKind(a), Nop)
            /\ UNCHANGED <<def, trace>>

\* ast.go:235-236
VisitCallExpr == Simple(SNode("CallExpr"), CallExpr, Call)

\* ast.go:238-239
VisitCompositeLit == Simple(SNode("CompositeLit"), CompositeLit, ArrayLit)

\* ast.go:241-242
VisitExprStmt == Simple(SNode("ExprStmt"), ExprStmt, Nop)

\* ast.go:244-245
VisitField == Simple(SNode("Field"), Field, Nop)

\* ast.go:247-248
VisitFieldList == Simple(SNode("FieldList"), FieldList, Nop)

\* ast.go:250-251
VisitFile ==
    LET a == SNode("File")
    IN  /\ Enter(a)
        /\ PushChild(a, File, Nop)
        /\ UNCHANGED <<def, trace>>

\* ast.go:254-267
ForKind(a) ==
    IF ~a.Cond THEN For0
    ELSE IF ~a.Init /\ ~a.Post THEN For1
    ELSE IF a.Init /\ ~a.Post THEN For2
    ELSE IF ~a.Init /\ a.Post THEN For3
    ELSE For4

\* ast.go:253-268
VisitForStmt ==
    \E f \in file.forShapes :
        LET a == [SNode("ForStmt") EXCEPT !.Init = f[1], !.Cond = f[2], !.Post = f[3]]
        IN  /\ Enter(a)
            /\ PushChild(a, ForKind(a), Nop)
            /\ UNCHANGED <<def, trace>>

\* ast.go:270-274: def[a.Name.Name] = n replaces an earlier binding of the name
VisitFuncDecl ==
    \E nm \in file.names :
        LET a == [SNode("FuncDecl") EXCEPT !.Name = nm]
            r == addChild(Locals, top(st), FuncDecl, Nop, a)
        IN  /\ Enter(a)
            /\ nodes' = r.nodes
            /\ index' = r.index
            /\ root' = r.root
            /\ def' = {b \in def : b[1] # a.Name} \cup {<<a.Name, r.n>>}
            /\ st' = push(st, r.n)
            /\ UNCHANGED trace

\* ast.go:276-277
VisitFuncType == Simple(SNode("FuncType"), FuncType, Nop)

\* ast.go:279-282
VisitIdent ==
    \E nm \in file.names :
        LET a == [SNode("Ident") EXCEPT !.Name = nm]
            r == addChild(Locals, top(st), Ident, Nop, a)
        IN  /\ Enter(a)
            /\ nodes' = [r.nodes EXCEPT ![r.n].ident = a.Name]
            /\ index' = r.index
            /\ root' = r.root
            /\ st' = push(st, r.n)
            /\ UNCHANGED <<def, trace>>

\* ast.go:285-294
IfKind(a) ==
    IF ~a.Init /\ ~a.Else THEN If0
    ELSE IF ~a.Init /\ a.Else THEN If1
    ELSE IF ~a.Else THEN If2
    ELSE If3

\* ast.go:284-295
VisitIfStmt ==
    \E f \in file.ifShapes :
        LET a == [SNode("IfStmt") EXCEPT !.Init = f[1], !.Else = f[2]]
        IN  /\ Enter(a)
            /\ PushChild(a, IfKind(a), Nop)
            /\ UNCHANGED <<def, trace>>

IncDecAction(a) ==
    CASE a.Tok = "INC" -> Inc
      [] a.Tok = "DEC" -> Dec
      [] OTHER -> Nop

\* ast.go:297-305
VisitIncDecStmt ==
    \E t \in file.incDecToks :
        LET a == [SNode("IncDecStmt") EXCEPT !.Tok = t]
        IN  /\ Enter(a)
            /\ PushChild(a, IncDecStmt, IncDecAction(a))
            /\ UNCHANGED <<def, trace>>

\* ast.go:307-308
VisitIndexExpr == Simple(SNode("IndexExpr"), IndexExpr, GetIndex)

\* ast.go:310-311
VisitParenExpr == Simple(SNode("ParenExpr"), ParenExpr, Nop)

\* the range case with both new nodes pushed
RangeNodes_pushBoth(a) ==
    LET n == addChild(Locals, top(st), ForRangeStmt, Nop, NoNode)
        r == addChild(n, n.n, RangeStmt, Range, a)
    IN  [nodes |-> r.nodes, index |-> r.index, root |-> r.root, st |-> push(push(st, n.n), r.n)]

\* the range case with the RangeStmt node attached beside the ForRangeStmt node
RangeNodes_sibling(a) ==
    LET n == addChild(Locals, top(st), ForRangeStmt, Nop, NoNode)
        r == addChild(n, top(st), RangeStmt, Range, a)
    IN  [nodes |-> r.nodes, index |-> r.index, root |-> r.root, st |-> push(st, r.n)]

\* ast.go:315-316: the two nodes the range case creates, and the stack it leaves
RangeNodes(a) ==
    LET n == addChild(Locals, top(st), ForRangeStmt, Nop, NoNode)
        r == addChild(n, n.n, RangeStmt, Range, a)
    IN  [nodes |-> r.nodes, index |-> r.index, root |-> r.root, st |-> push(st, r.n)]

\* ast.go:313-316
VisitRangeStmt ==
    LET a == SNode("RangeStmt")
        r == RangeNodes(a)
    IN  /\ file.simple
        /\ Enter(a)
        /\ nodes' = r.nodes
        /\ index' = r.index
        /\ root' = r.root
        /\ st' = r.st
        /\ UNCHANGED <<def, trace>>

\* ast.go:318-319
VisitReturnStmt == Simple(SNode("ReturnStmt"), ReturnStmt, Return)

\* ast.go:321-323
VisitDefault ==
    \E t \in file.others :
        LET a == SNode(t)
        IN  /\ Enter(a)
            /\ trace' = Append(trace, <<"Unknown kind for", t>>)
            /\ PushChild(a, Undef, Nop)
            /\ UNCHANGED def

\* ast.go:327: ast.Inspect has left the File, Ast returns root and def
AstReturn ==
    /\ outcome = "inspect"
    /\ visits > 0
    /\ walk = <<>>
    /\ outcome' = "returned"
    /\ UNCHANGED <<perr, nodes, index, root, st, def, trace, walk, visits, file, strIn, strOut, loader>>

IdleStr == [fn |-> "none", k |-> 0]
\* strOut before the call has run
Pending == [panic |-> FALSE, s |-> "?"]
IdleLoader == [pc |-> "off", P |-> "", Q |-> <<>>, fs |-> {}, mod |-> FALSE, A |-> <<>>, dir |-> <<>>]

AstInit ==
    /\ outcome = "idle"
    /\ perr = ""
    /\ nodes = <<>>
    /\ index = 0
    /\ root = NIL
    /\ st = <<>>
    /\ def = {}
    /\ trace = <<>>
    /\ walk = <<>>
    /\ visits = 0

Init ==
    /\ AstInit
    /\ file = TreeFile
    /\ strIn = IdleStr
    /\ strOut = Pending
    /\ loader = IdleLoader

Visit ==
    \/ VisitNil
    \/ VisitArrayType
    \/ VisitAssignStmt
    \/ VisitBasicLit
    \/ VisitBinaryExpr
    \/ VisitBlockStmt
    \/ VisitBranchStmt
    \/ VisitCallExpr
    \/ VisitCompositeLit
    \/ VisitExprStmt
    \/ VisitField
    \/ VisitFieldList
    \/ VisitFile
    \/ VisitForStmt
    \/ VisitFuncDecl
    \/ VisitFuncType
    \/ VisitIdent
    \/ VisitIfStmt
    \/ VisitIncDecStmt
    \/ VisitIndexExpr
    \/ VisitParenExpr
    \/ VisitRangeStmt
    \/ VisitReturnStmt
    \/ VisitDefault

Next ==
    \/ AstParseError
    \/ AstParsed
    \/ Visit
    \/ AstReturn

Spec == Init /\ [][Next]_vars

(***************************************************************************)
(* Lowering of files made of statements and operators in every shape.      *)
(***************************************************************************)
InitShapes ==
    /\ AstInit
    /\ file = ShapesFile
    /\ strIn = IdleStr
    /\ strOut = Pending
    /\ loader = IdleLoader

NextShapes ==
    \/ AstParseError
    \/ AstParsed
    \/ VisitNil
    \/ VisitFile
    \/ VisitAssignStmt
    \/ VisitBinaryExpr
    \/ VisitBranchStmt
    \/ VisitForStmt
    \/ VisitIfStmt
    \/ VisitIncDecStmt
    \/ VisitDefault
    \/ AstReturn

SpecShapes == InitShapes /\ [][NextShapes]_vars

(***************************************************************************)
(* Lowering of files of literals, over every lexeme of at most MaxLen      *)
(* characters of Alphabet and the lexemes of ExtraLexemes.                 *)
(***************************************************************************)
Alphabet == {"0", "1", "8", "x", "b", "_", "-"}

RECURSIVE SeqsUpTo(_)
SeqsUpTo(n) == IF n = 0 THEN {<<>>}
               ELSE LET shorter == SeqsUpTo(n - 1)
                    IN  shorter \cup {Append(q, c) : q \in {r \in shorter : Len(r) = n - 1}, c \in Alphabet}

ExtraLexemes ==
    { <<"0", "7", "7", "7">>, <<"0", "o", "1", "7">>, <<"0", "O", "7">>, <<"0", "o", "8">>,
      <<"0", "X", "1", "F">>, <<"0", "B", "1">>, <<"1", "_", "0", "0", "0">>,
      <<"1", ".", "5">>, <<"1", "e", "3">>, <<"'", "a", "'">>, <<"\"", "s", "\"">>,
      <<"+", "7">>, <<"2", "i">>,
      \* 2^63 - 1, 2^63, -2^63, -2^63 - 1, 2^64
      <<"9","2","2","3","3","7","2","0","3","6","8","5","4","7","7","5","8","0","7">>,
      <<"9","2","2","3","3","7","2","0","3","6","8","5","4","7","7","5","8","0","8">>,
      <<"-","9","2","2","3","3","7","2","0","3","6","8","5","4","7","7","5","8","0","8">>,
      <<"-","9","2","2","3","3","7","2","0","3","6","8","5","4","7","7","5","8","0","9">>,
      <<"1","8","4","4","6","7","4","4","0","7","3","7","0","9","5","5","1","6","1","6">>,
      <<"0","x","7","f","f","f","f","f","f","f","f","f","f","f","f","f","f","f">>,
      <<"0","x","8","0","0","0","0","0","0","0","0","0","0","0","0","0","0","0">> }

AllLexemes == SeqsUpTo(MaxLen) \cup ExtraLexemes

InitLit ==
    /\ AstInit
    /\ file \in {LitFile(v) : v \in AllLexemes}
    /\ strIn = IdleStr
    /\ strOut = Pending
    /\ loader = IdleLoader

NextLit ==
    \/ AstParsed
    \/ VisitNil
    \/ VisitFile
    \/ VisitBasicLit
    \/ AstReturn

SpecLit == InitLit /\ [][NextLit]_vars

(***************************************************************************)
(* Kind.String (ast.go:92-101) and Action.String (ast.go:145-154)          *)
(***************************************************************************)
\* ast.go:53-90: the array has an entry for every index up to ReturnStmt,
\* empty where the literal names none (Fallthrough)
kinds == <<"Undef", "ArrayType", "AssignStmt", "BasicLit", "BinaryExpr", "BlockStmt",
           "BranchStmt", "Break", "CallExpr", "CompositLit", "Continue", "ExprStmt",
           "", "Field", "FieldList", "File", "For0", "For1", "For2", "For3", "For4",
           "ForRangeStmt", "ForStmt", "FuncDecl", "FuncType", "Goto", "Ident",
           "If0", "If1", "If2", "If3", "IfStmt", "IncDecStmt", "IndexExpr",
           "ParenExpr", "RangeStmt", "ReturnStmt">>

\* ast.go:125-143
actions == <<"nop", "arraylit", "=", "=", "+", "&", "call", "--", "==", ">",
             "getindex", "++", "<", "println", "range", "return", "-">>

\* Go's arr[k] on an array indexed from 0: a run-time panic outside it
IndexArray(arr, k) ==
    IF 0 <= k /\ k < Len(arr) THEN [panic |-> FALSE, s |-> arr[k + 1]]
    ELSE [panic |-> TRUE, s |-> "index out of range"]

\* strconv.Itoa
Itoa(k) == ToString(k)

\* ast.go:92-101
KindString(k) ==
    LET got == IF 0 <= k /\ k <= Len(kinds) THEN IndexArray(kinds, k)
               ELSE [panic |-> FALSE, s |-> ""]
    IN  IF got.panic THEN got
        ELSE IF got.s = "" THEN [panic |-> FALSE, s |-> "kind(" \o Itoa(k) \o ")"]
        ELSE got

\* ast.go:145-154
ActionString(a) ==
    LET got == IF 0 <= a /\ a <= Len(actions) THEN IndexArray(actions, a)
               ELSE [panic |-> FALSE, s |-> ""]
    IN  IF got.panic THEN got
        ELSE IF got.s = "" THEN [panic |-> FALSE, s |-> "action(" \o Itoa(a) \o ")"]
        ELSE got

CallKindString ==
    /\ strIn.fn = "Kind"
    /\ strOut = Pending
    /\ strOut' = KindString(strIn.k)
    /\ UNCHANGED <<astVars, strIn, loader>>

CallActionString ==
    /\ strIn.fn = "Action"
    /\ strOut = Pending
    /\ strOut' = ActionString(strIn.k)
    /\ UNCHANGED <<astVars, strIn, loader>>

InitString ==
    /\ AstInit
    /\ file = TreeFile
    /\ \/ strIn \in [fn : {"Kind"}, k : (0 - StrSpan)..(Len(kinds) + StrSpan)]
       \/ strIn \in [fn : {"Action"}, k : (0 - StrSpan)..(Len(actions) + StrSpan)]
    /\ strOut = Pending
    /\ loader = IdleLoader

NextString == CallKindString \/ CallActionString

SpecString == InitString /\ [][NextString]_vars

(***************************************************************************)
(* The package loader.  Directories are paths below the workspace root R,  *)
(* the empty path; the importing package is at path Q; fs is the set of    *)
(* directories that exist.                                                 *)
(***************************************************************************)
\* import paths
Pkgs == {"foo", "bar"}
\* the directories from R down to the deepest importing package
DirNames == [i \in 1..MaxDepth |-> IF i = 1 THEN "src" ELSE ToString(i)]
Prefix(q, i) == SubSeq(q, 1, i)
PkgDirs == {Prefix(DirNames, i) : i \in 0..MaxDepth}

VendorDir(A, P) == A \o <<"vendor", P>>
SrcDir(P) == <<"src", P>>
ModDir(P) == <<"modcache", P>>

\* the directories that may or may not exist
Probed == {VendorDir(A, p) : A \in PkgDirs, p \in Pkgs} \cup {SrcDir(p) : p \in Pkgs}

LoaderStart(P, Q, fs, mod) ==
    [pc |-> "walk", P |-> P, Q |-> Q, fs |-> fs, mod |-> mod, A |-> Q, dir |-> <<>>]

\* step 1 at the package's own directory only, never at its ancestors
Step1Walk_noAscent(l) ==
    IF VendorDir(l.A, l.P) \in l.fs
    THEN [l EXCEPT !.pc = "bound", !.dir = VendorDir(l.A, l.P)]
    ELSE [l EXCEPT !.pc = "fallback"]

\* step 1 of the search order: probe A/vendor/P, accept a hit, else move up
Step1Walk(l) ==
    IF VendorDir(l.A, l.P) \in l.fs
    THEN [l EXCEPT !.pc = "bound", !.dir = VendorDir(l.A, l.P)]
    ELSE IF l.A = <<>> THEN [l EXCEPT !.pc = "fallback"]
    ELSE [l EXCEPT !.A = Prefix(l.A, Len(l.A) - 1)]

\* step 2: the workspace layout fallback R/src/P
Step2Fallback(l) ==
    IF SrcDir(l.P) \in l.fs
    THEN [l EXCEPT !.pc = "bound", !.dir = SrcDir(l.P)]
    ELSE IF l.mod THEN [l EXCEPT !.pc = "modules"]
    ELSE [l EXCEPT !.pc = "error"]

\* step 3: module mode with a manifest resolves through the module cache
Step3Modules(l) == [l EXCEPT !.pc = "bound", !.dir = ModDir(l.P)]

LoaderWalk ==
    /\ loader.pc = "walk"
    /\ loader' = Step1Walk(loader)
    /\ UNCHANGED <<astVars, strIn, strOut>>

LoaderFallback ==
    /\ loader.pc = "fallback"
    /\ loader' = Step2Fallback(loader)
    /\ UNCHANGED <<astVars, strIn, strOut>>

LoaderModules ==
    /\ loader.pc = "modules"
    /\ loader' = Step3Modules(loader)
    /\ UNCHANGED <<astVars, strIn, strOut>>

InitLoader ==
    /\ AstInit
    /\ file = TreeFile
    /\ strIn = IdleStr
    /\ strOut = Pending
    /\ \E P \in Pkgs, Q \in PkgDirs, fs \in SUBSET Probed, mod \in BOOLEAN :
          loader = LoaderStart(P, Q, fs, mod)

NextLoader == LoaderWalk \/ LoaderFallback \/ LoaderModules

SpecLoader == InitLoader /\ [][NextLoader]_vars

(***************************************************************************)
(* Properties of the node graph.                                           *)
(***************************************************************************)
NodeIds == 1..Len(nodes)

\* the places <<p, i>> where node n occurs in a Child sequence
Occurrences(n) == {pi \in NodeIds \X NodeIds :
                      /\ pi[2] <= Len(nodes[pi[1]].Child)
                      /\ nodes[pi[1]].Child[pi[2]] = n}

RECURSIVE PreOrderFrom(_)
\* pre-order traversal of the nodes in todo and below them, children in sequence order
PreOrderFrom(todo) ==
    IF todo = <<>> THEN <<>>
    ELSE <<Head(todo)>> \o PreOrderFrom(nodes[Head(todo)].Child \o Tail(todo))

KindNodes(k) == {n \in NodeIds : nodes[n].kind = k}
Lowered(type) == {n \in NodeIds : nodes[n].anode.type = type}

\* C1: the node graph is a tree: exactly one node has no ancestor, it is the
\* root Ast returns and has kind File; every other node occurs exactly once in
\* a Child sequence, that of the node its anc field points to.
C1_Tree ==
    nodes # <<>> =>
        /\ Cardinality({n \in NodeIds : nodes[n].anc = NIL}) = 1
        /\ root \in NodeIds
        /\ nodes[root].anc = NIL
        /\ nodes[root].kind = File
        /\ Occurrences(root) = {}
        /\ \A n \in NodeIds \ {root} :
              /\ nodes[n].anc \in 1..(n - 1)
              /\ Cardinality(Occurrences(n)) = 1
              /\ \A pi \in Occurrences(n) : pi[1] = nodes[n].anc

C1_Witness ==
    /\ outcome = "returned"
    /\ \E n \in NodeIds : nodes[n].anc # NIL /\ nodes[n].anc # root
    /\ \E n \in NodeIds : Len(nodes[n].Child) = 2

\* C2: the index values are pairwise distinct and strictly increase in
\* creation order, the synthetic ForRangeStmt node included, so the pre-order
\* traversal of the finished tree meets strictly increasing index values.
C2_IndexOrder ==
    /\ \A m \in NodeIds, n \in NodeIds : m < n => nodes[m].index < nodes[n].index
    /\ \A n \in NodeIds : nodes[n].index <= index
    /\ outcome = "returned" =>
          LET order == PreOrderFrom(<<root>>)
          IN  /\ Len(order) = Len(nodes)
              /\ \A i \in 1..(Len(order) - 1) :
                    nodes[order[i]].index < nodes[order[i + 1]].index

C2_Witness ==
    /\ outcome = "returned"
    /\ KindNodes(ForRangeStmt) # {}
    /\ \E n \in NodeIds : nodes[n].anc # NIL /\ nodes[n].index > nodes[nodes[n].anc].index + 1

\* C3: every non-nil visit leaves exactly one more node on the ancestor stack
\* (the range visit too), pop never runs on an empty stack, the stack depth
\* equals the nesting depth of the surface walk, and the stack is empty when
\* lowering ends.
C3_Stack ==
    /\ perr # "index out of range"
    /\ Len(st) = Len(walk)
    /\ \A i \in 1..Len(st) : st[i] \in NodeIds /\ nodes[st[i]].anode = walk[i]
    /\ outcome = "returned" => st = <<>>

C3_Witness ==
    /\ outcome = "returned"
    /\ st = <<>>
    /\ KindNodes(RangeStmt) # {}
    /\ Len(nodes) = MaxVisits + 1

\* the node under which the lowering of a surface node was attached: the
\* ancestor of its node, or of the synthetic parent made for a range statement
Attached(n) == IF nodes[n].kind = RangeStmt /\ nodes[n].anc # NIL
               THEN nodes[nodes[n].anc].anc
               ELSE nodes[n].anc

\* C7: a ForRangeStmt node has exactly one child, of kind RangeStmt and action
\* Range; a RangeStmt node has a ForRangeStmt node as its ancestor; what is
\* lowered inside a range statement is attached under the RangeStmt node.
C7_RangeShape ==
    /\ \A n \in KindNodes(ForRangeStmt) :
          /\ Len(nodes[n].Child) = 1
          /\ nodes[nodes[n].Child[1]].kind = RangeStmt
          /\ nodes[nodes[n].Child[1]].action = Range
    /\ \A n \in KindNodes(RangeStmt) :
          /\ nodes[n].anc # NIL
          /\ nodes[nodes[n].anc].kind = ForRangeStmt
    /\ \A n \in Lowered("RangeStmt") : nodes[n].kind = RangeStmt
    /\ \A i \in 1..Len(walk) :
          walk[i].type = "RangeStmt" =>
              /\ i <= Len(st)
              /\ nodes[st[i]].kind = RangeStmt
              /\ i < Len(st) => Attached(st[i + 1]) = st[i]

C7_Witness ==
    /\ outcome = "returned"
    /\ \E n \in KindNodes(RangeStmt) :
          /\ Len(nodes[n].Child) = 1
          /\ nodes[nodes[n].Child[1]].kind # ForRangeStmt

(***************************************************************************)
(* Properties of the classification of statements.                         *)
(***************************************************************************)
\* C4: a for statement is lowered to For0 exactly when it has no condition,
\* no init and no post, to For1 exactly when it has a condition only, to For2
\* exactly with init and condition, to For3 exactly with condition and post,
\* to For4 exactly with all three.
C4_ForKinds ==
    \A n \in Lowered("ForStmt") :
        LET a == nodes[n].anode
        IN  /\ nodes[n].kind = For0 <=> (~a.Cond /\ ~a.Init /\ ~a.Post)
            /\ nodes[n].kind = For1 <=> (a.Cond /\ ~a.Init /\ ~a.Post)
            /\ nodes[n].kind = For2 <=> (a.Cond /\ a.Init /\ ~a.Post)
            /\ nodes[n].kind = For3 <=> (a.Cond /\ ~a.Init /\ a.Post)
            /\ nodes[n].kind = For4 <=> (a.Cond /\ a.Init /\ a.Post)

\* C8: a branch statement is lowered to kind Break or Continue; a node of kind
\* Undef comes only from the default case, together with a diagnostic.
C8_BranchKinds ==
    /\ \A n \in Lowered("BranchStmt") : nodes[n].kind \in {Break, Continue}
    /\ \A n \in KindNodes(Undef) : nodes[n].anode.type \in OtherTypes
    /\ Cardinality(KindNodes(Undef)) = Len(trace)

\* C9: a failure of the parser reaches the caller as a returned error value,
\* the call is not aborted.
C9_ParseErrorReturned ==
    perr # "" => outcome = "returned"

(***************************************************************************)
(* Properties of Kind.String and Action.String.                            *)
(***************************************************************************)
\* the value the call is to give: the table's name, else the fallback text
Named(table, prefix, k) ==
    IF k \in 0..(Len(table) - 1) /\ table[k + 1] # ""
    THEN table[k + 1]
    ELSE prefix \o "(" \o ToString(k) \o ")"

\* C10: Kind.String and Action.String return for every integer, the table's
\* name where the table has one and the fallback text otherwise.
C10_StringTotal ==
    strOut # Pending =>
        /\ ~strOut.panic
        /\ strIn.fn = "Kind" => strOut.s = Named(kinds, "kind", strIn.k)
        /\ strIn.fn = "Action" => strOut.s = Named(actions, "action", strIn.k)

(***************************************************************************)
(* Properties of literals.  The integer literals are described by their    *)
(* form, independently of the parsing loop.                                *)
(***************************************************************************)
\* underscores separate digits: none leads, none trails, no two are adjacent
SeparatorsOK(t) ==
    /\ t # <<>>
    /\ t[1] # "_"
    /\ t[Len(t)] # "_"
    /\ \A i \in 1..(Len(t) - 1) : ~(t[i] = "_" /\ t[i + 1] = "_")

\* t is made of digits of the base and underscores
Over(t, base) == \A i \in 1..Len(t) : t[i] = "_" \/ DigitVal(t[i]) \in 0..(base - 1)

Unsigned(s) == IF s # <<>> /\ s[1] \in {"+", "-"} THEN Tail(s) ELSE s

PrefixBase(b) ==
    IF Len(b) >= 3 /\ b[1] = "0"
    THEN CASE b[2] \in {"x", "X"} -> 16
           [] b[2] \in {"o", "O"} -> 8
           [] b[2] \in {"b", "B"} -> 2
           [] OTHER -> 0
    ELSE 0

\* the base an unsigned literal is written in, 0 when it is no integer literal;
\* legacy selects whether a leading 0 announces octal digits
FormBase(b, legacy, seps) ==
    IF b = <<>> THEN 0
    ELSE IF ~seps /\ \E i \in 1..Len(b) : b[i] = "_" THEN 0
    ELSE IF PrefixBase(b) # 0
    THEN (IF Over(SubSeq(b, 3, Len(b)), PrefixBase(b)) /\ SeparatorsOK(<<"0">> \o SubSeq(b, 3, Len(b)))
          THEN PrefixBase(b) ELSE 0)
    ELSE IF b = <<"0">> THEN 10
    ELSE IF b[1] = "0"
    THEN (IF legacy /\ Over(b, 8) /\ SeparatorsOK(b) THEN 8 ELSE 0)
    ELSE IF Over(b, 10) /\ SeparatorsOK(b) THEN 10
    ELSE 0

RECURSIVE Magnitude(_, _, _)
\* the value of the digits of t in the base, most significant first
Magnitude(t, base, acc) ==
    IF t = <<>> THEN acc
    ELSE IF Head(t) = "_" THEN Magnitude(Tail(t), base, acc)
    ELSE Magnitude(Tail(t), base, MulAddLimbs(acc, base, DigitVal(Head(t))))

LiteralMagnitude(b, legacy, seps) ==
    LET base == FormBase(b, legacy, seps)
    IN  Magnitude(IF PrefixBase(b) # 0 THEN SubSeq(b, 3, Len(b)) ELSE b, base, <<>>)

\* s is a signed integer literal whose value an int holds
IsIntLiteral(s, legacy, seps) ==
    LET b == Unsigned(s)
    IN  /\ FormBase(b, legacy, seps) # 0
        /\ IF s[1] = "-"
           THEN ~LimbsLess(IntCutoff, LiteralMagnitude(b, legacy, seps))
           ELSE LimbsLess(LiteralMagnitude(b, legacy, seps), IntCutoff)

LiteralVal(s) ==
    LET m == LiteralMagnitude(Unsigned(s), TRUE, TRUE)
    IN  IntVal(s[1] = "-" /\ m # <<>>, m)

\* C6 as amended: a BasicLit node has its lexeme as ident, and val is the
\* literal's integer value exactly when the lexeme is a signed integer literal
\* in range, written in base 10, with a 0x, 0o or 0b prefix, or with a leading
\* 0 before octal digits, underscores between digits allowed; otherwise val is
\* the lexeme.
C6_LiteralValues ==
    \A n \in KindNodes(BasicLit) :
        LET lexeme == nodes[n].anode.Value
        IN  /\ nodes[n].ident = lexeme
            /\ nodes[n].val = IF IsIntLiteral(lexeme, TRUE, TRUE)
                              THEN LiteralVal(lexeme)
                              ELSE StrVal(lexeme)

\* a leading-zero or digit-separator literal was lowered to an integer
C6_Witness ==
    /\ outcome = "returned"
    /\ \E n \in KindNodes(BasicLit) :
          /\ nodes[n].val.t = "int"
          /\ nodes[n].val.mag # <<>>
          /\ ~IsIntLiteral(nodes[n].ident, FALSE, FALSE)

\* C6: val is an integer exactly when the lexeme is a signed integer literal
\* in base 10 or with a 0x, 0o or 0b prefix; leading-zero forms, digit
\* separators, values out of range and all other lexemes keep the string.
C6_Original ==
    \A n \in KindNodes(BasicLit) :
        LET lexeme == nodes[n].anode.Value
        IN  /\ nodes[n].ident = lexeme
            /\ nodes[n].val.t \in {"int", "string"}
            /\ nodes[n].val.t = "int" <=> IsIntLiteral(lexeme, FALSE, FALSE)
            /\ nodes[n].val.t = "string" => nodes[n].val = StrVal(lexeme)

(***************************************************************************)
(* Properties of the package loader.                                       *)
(***************************************************************************)
\* the depths of the ancestors of Q, Q and R included, that hold a vendored P
VendorHits(l) == {i \in 0..Len(l.Q) : VendorDir(Prefix(l.Q, i), l.P) \in l.fs}

\* C5: the import binds to A/vendor/P for the innermost ancestor A of Q that
\* has it, and to R/src/P only when no ancestor has a vendored copy.
C5_InnermostVendor ==
    loader.pc = "bound" =>
        /\ VendorHits(loader) # {} =>
              \E i \in VendorHits(loader) :
                  /\ \A j \in VendorHits(loader) : j <= i
                  /\ loader.dir = VendorDir(Prefix(loader.Q, i), loader.P)
        /\ (VendorHits(loader) = {} /\ SrcDir(loader.P) \in loader.fs) =>
              loader.dir = SrcDir(loader.P)
        /\ loader.dir = SrcDir(loader.P) => VendorHits(loader) = {}

\* bound to an inner vendor copy while an outer one and the workspace copy exist
C5_Witness ==
    /\ loader.pc = "bound"
    /\ Cardinality(VendorHits(loader)) >= 2
    /\ SrcDir(loader.P) \in loader.fs
    /\ \E i \in VendorHits(loader) : i > 0 /\ i < Len(loader.Q)
                                     /\ loader.dir = VendorDir(Prefix(loader.Q, i), loader.P)
====
